---- MODULE Spec2Model ----
(***************************************************************************)
(* Session / presence / broadcast engine of the chat server                *)
(* (Backend Folder/server_js.js) together with the parts of the Mongoose   *)
(* models (Room, Message, User) that the socket handlers drive.            *)
(*                                                                         *)
(* Every socket handler is an async function: its synchronous prefix runs  *)
(* when the event is dispatched, and every `await` is a point where other  *)
(* handlers interleave.  One action models the dispatch of an event (the   *)
(* code up to the first await) and one action models the completion of     *)
(* each awaited store call together with the code up to the next await.    *)
(***************************************************************************)
EXTENDS Integers, Sequences, FiniteSets, TLC

VARIABLES
  connState,    \* per socket: "open" (connected, handlers registered) or "closed"
  activeUsers,  \* the Map activeUsers, in insertion order: <<[sid, userId, username, roomId, joinedAt]>>
  socketRooms,  \* socket.io adapter rooms: roomId -> set of socket ids (socket.join / leave on close)
  users,        \* User collection: userId -> NoDoc or document
  roomsDb,      \* Room collection: roomId -> NoDoc or document
  messages,     \* Message collection, in insertion order
  ops,          \* every handler invocation so far, with its locals and position
  sent,         \* every emit call so far, in order: [op, ev, to, body]
  now,          \* the value of the latest new Date()
  failures,     \* number of store calls that were rejected so far
  typingUsers,      \* client: the Set typingUsers, in insertion order
  typingIndicator,  \* client: "hidden" or "shown" (class list of #typingIndicator)
  typingText,       \* client: text content of #typingText, as a sequence of pieces
  typingEvents,     \* every user-typing event the client has handled, in order
  currentUser,      \* client: this.currentUser, NoDoc (null) before handleJoinChat
  isConnected,      \* client: this.isConnected
  messageInput,     \* client: value of #messageInput
  typingTimeout,    \* client: the pending timer of this.typingTimeout, <<ticks until it fires>>, or <<>>
  clientEmits       \* every event the client has emitted on its socket, in order

serverVars == <<connState, activeUsers, socketRooms, users, roomsDb, messages, ops, sent, now, failures>>

inputVars == <<currentUser, isConnected, messageInput, typingTimeout, clientEmits>>

indicatorVars == <<typingUsers, typingIndicator, typingText, typingEvents>>

clientVars == <<indicatorVars, inputVars>>

vars == <<serverVars, clientVars>>

----------------------------------------------------------------------------
(* Bounds of the model *)

MaxOps == 3            \* handler invocations explored
MaxInFlight == 2       \* handlers suspended on the store at the same time
MaxJoins == 2          \* join events explored
MaxClock == 1          \* distinct later instants new Date() may return
MaxStoreFailures == 1  \* rejected store calls explored

(* Program constants *)

MaxContentLen == 1000  \* server_js.js: content.length > 1000; Message.content maxlength
RecentLimit == 50      \* server_js.js: .limit(50)

UserIds == {"u1", "u2"}
Empty == ""                    \* a missing or empty string field (falsy in JS)
Undefined == "undefined"       \* an absent payload field
DefaultRoom == "general"
RoomIds == {DefaultRoom, "dev"}
NoDoc == [none |-> TRUE]       \* no document / null / undefined
Null == "null"

(* The join payloads explored: valid identities for both rooms (an absent *)
(* roomId defaults to 'general'), and payloads with a missing field.      *)
JoinPayload(userId, username, roomId) ==
  [userId |-> userId, username |-> username, roomId |-> roomId]

JoinPayloads ==
  { JoinPayload("u1", "alice", Undefined),
    JoinPayload("u1", "alice", "dev"),
    JoinPayload("u2", "bob", DefaultRoom),
    JoinPayload(Empty, "alice", DefaultRoom),
    JoinPayload("u1", Empty, DefaultRoom) }

(* Message types a client may put in the payload; the schema's enum. *)
MessageTypeEnum == {"text", "image", "file", "system", "private"}

(* Error messages of the handlers *)
ErrInvalidUser == "Invalid user data"
ErrJoinFailed == "Failed to join room"
ErrNotAuthenticated == "User not authenticated"
ErrEmptyContent == "Message content cannot be empty"
ErrTooLong == "Message too long"
ErrSendFailed == "Failed to send message"

----------------------------------------------------------------------------
(* Message content.  A string is kept as the number of leading whitespace *)
(* characters, the length of its trimmed core (which starts and ends with *)
(* a non-blank character, 0 when the string is blank) and the number of   *)
(* trailing whitespace characters.                                        *)

Content(pre, core, post) == [pre |-> pre, core |-> core, post |-> post]

Contents ==
  { Content(0, 0, 0),                   \* ""
    Content(2, 0, 0),                   \* "  "
    Content(0, 1, 0),                   \* "a"
    Content(0, MaxContentLen, 0),       \* exactly 1000 characters
    Content(0, MaxContentLen, 1),       \* 1001 characters, 1000 after trim
    Content(0, MaxContentLen + 1, 0) }  \* 1001 characters

StrLength(s) == s.pre + s.core + s.post

Trim(s) == Content(0, s.core, 0)

IsBlank_untrimmed(s) == StrLength(s) = 0

\* !content || content.trim().length === 0
IsBlank(s) == StrLength(s) = 0 \/ StrLength(Trim(s)) = 0

TooLong_off_by_one(s) == StrLength(s) >= MaxContentLen

\* content.length > 1000
TooLong(s) == StrLength(s) > MaxContentLen

(* The send payloads explored: every content as a text message (type    *)
(* absent), and one message whose payload names the type 'private'.      *)
SendPayload(content, type) == [content |-> content, type |-> type]

SendPayloads ==
  { SendPayload(s, Undefined) : s \in Contents } \cup { SendPayload(Content(0, 1, 0), "private") }

----------------------------------------------------------------------------
(* The Map activeUsers *)

RECURSIVE IndexOf(_, _, _)
IndexOf(seq, sid, i) ==
  IF i > Len(seq) THEN 0
  ELSE IF seq[i].sid = sid THEN i ELSE IndexOf(seq, sid, i + 1)

MapHas(m, sid) == IndexOf(m, sid, 1) # 0

MapGet(m, sid) == IF MapHas(m, sid) THEN m[IndexOf(m, sid, 1)] ELSE NoDoc

\* Map.prototype.set keeps the position of an existing key
MapSet(m, entry) ==
  IF MapHas(m, entry.sid)
  THEN [m EXCEPT ![IndexOf(m, entry.sid, 1)] = entry]
  ELSE Append(m, entry)

MapDelete(m, sid) == SelectSeq(m, LAMBDA e : e.sid # sid)

\* Array.from(activeUsers.values()).filter(user => user.roomId === roomId).map(...)
OnlineUsers(m, roomId) ==
  LET inRoom == SelectSeq(m, LAMBDA e : e.roomId = roomId)
  IN [i \in 1..Len(inRoom) |->
        [userId |-> inRoom[i].userId, username |-> inRoom[i].username,
         joinedAt |-> inRoom[i].joinedAt]]

----------------------------------------------------------------------------
(* Emission.  socket.emit addresses the socket itself, io.to(room) every  *)
(* socket in the adapter's room, socket.to(room) every socket of the room *)
(* but the emitting one.                                                   *)

SocketEmit(sid) == {sid}

IoTo(rooms, roomId) == rooms[roomId]

SocketTo(rooms, sid, roomId) == rooms[roomId] \ {sid}

Emit(log, op, ev, to, body) ==
  Append(log, [op |-> op, ev |-> ev, to |-> to, body |-> body])

\* the events emitted to one socket, in order
Outbox(sid) == SelectSeq(sent, LAMBDA e : sid \in e.to)

ErrorBody(msg) == [message |-> msg]

----------------------------------------------------------------------------
(* Handler invocations *)

NoRoom == NoDoc

NewOp(kind, sid) ==
  [kind |-> kind, sid |-> sid, pc |-> "done", result |-> Null,
   userId |-> Null, username |-> Null, roomId |-> Null,
   room |-> NoRoom, base |-> 0,
   content |-> Content(0, 0, 0), raw |-> Content(0, 0, 0), type |-> Null,
   ts |-> 0, membersAt |-> {}, hadSession |-> FALSE, failedAt |-> Null, cause |-> Null,
   typing |-> FALSE, recipient |-> Null, recipientSid |-> Null, seen |-> 0,
   adminBase |-> 0, setParticipants |-> FALSE, setAdmins |-> FALSE, during |-> {},
   matches |-> <<>>, openAt |-> {}, absent |-> FALSE]

Conns == {"s1", "s2"}

OpIds == 1..Len(ops)

Settled == \A i \in OpIds : ops[i].pc = "done"

InFlight == {i \in OpIds : ops[i].pc # "done"}

CanStart == Len(ops) < MaxOps /\ Cardinality(InFlight) < MaxInFlight

CanFail == failures < MaxStoreFailures

Outcomes == IF CanFail THEN {TRUE, FALSE} ELSE {TRUE}

Failed(ok) == IF ok THEN failures ELSE failures + 1

----------------------------------------------------------------------------
\* the page as loaded: this.typingUsers = new Set(); <div id="typingIndicator"
\* class="typing-indicator hidden"><span id="typingText"></span>
ClientInit ==
  /\ typingUsers = <<>>
  /\ typingIndicator = "hidden"
  /\ typingText = <<>>
  /\ typingEvents = <<>>
  /\ currentUser = NoDoc
  /\ isConnected = FALSE
  /\ messageInput = Content(0, 0, 0)
  /\ typingTimeout = <<>>
  /\ clientEmits = <<>>

Init ==
  /\ connState = [c \in Conns |-> "open"]
  /\ activeUsers = <<>>
  /\ socketRooms = [r \in RoomIds |-> {}]
  /\ users = [u \in UserIds |-> NoDoc]
  /\ roomsDb = [r \in RoomIds |-> NoDoc]
  /\ messages = <<>>
  /\ ops = <<>>
  /\ sent = <<>>
  /\ now = 0
  /\ failures = 0
  /\ ClientInit

\* new Date(): the instant of the previous read, or a later one
ClockReads == IF now < MaxClock THEN {now, now + 1} ELSE {now}

\* The sockets are named in the order of their first event: a socket issues
\* its first event only after every socket named before it has issued one.
SocketOrder == <<"s1", "s2">>

Arrived(c) ==
  \A k \in 1..Len(SocketOrder) :
    (SocketOrder[k] = c /\ k > 1) => \E i \in OpIds : ops[i].sid = SocketOrder[k - 1]

CanStartOn(c) == connState[c] = "open" /\ CanStart /\ Arrived(c)

----------------------------------------------------------------------------
(* Room documents (models/Room.js) *)

DefaultMaxParticipants == 100

Includes(seq, x) == \E i \in 1..Len(seq) : seq[i] = x

\* new Room({roomId, name, description, createdBy})
NewRoom(roomId, userId) ==
  [roomId |-> roomId,
   name |-> IF roomId = DefaultRoom THEN "General Chat" ELSE roomId,
   createdBy |-> userId, participants |-> <<>>, admins |-> <<>>,
   maxParticipants |-> DefaultMaxParticipants]

\* roomSchema.pre('save'): the creator is made a participant and an admin
PreSaveRoom(room) ==
  [room EXCEPT
     !.participants = IF Includes(@, room.createdBy) THEN @ ELSE Append(@, room.createdBy),
     !.admins = IF Includes(@, room.createdBy) THEN @ ELSE Append(@, room.createdBy)]

----------------------------------------------------------------------------
(* Message documents (models/Message.js) *)

\* schema validation and messageSchema.pre('save') for a room message
\* built by the send handler (no recipient, roomId of the session)
MessageValid(doc) ==
  /\ doc.type \in MessageTypeEnum
  /\ StrLength(doc.content) > 0                       \* content: required
  /\ StrLength(doc.content) <= MaxContentLen          \* content: maxlength
  /\ ~(doc.type = "text" /\ IsBlank(doc.content))     \* 'Text messages must have content'
  /\ ~(doc.type = "private" /\ doc.recipient = Null)  \* 'Private messages must have a recipient'
  /\ ~(doc.type # "private" /\ doc.roomId = Null)     \* 'Room messages must have a roomId'

Min(a, b) == IF a < b THEN a ELSE b

Reverse(seq) == [i \in 1..Len(seq) |-> seq[Len(seq) + 1 - i]]

\* .sort({ timestamp: -1 }): the orders the store may return the documents
\* found[i], i \in S, in: newest first, those of equal timestamp in any order
RECURSIVE NewestFirst(_, _)
NewestFirst(found, S) ==
  IF S = {} THEN {<<>>}
  ELSE UNION { { <<found[i]>> \o rest : rest \in NewestFirst(found, S \ {i}) } :
               i \in {j \in S : \A k \in S : found[j].timestamp >= found[k].timestamp} }

FindRecent_unlimited(msgs, roomId) ==
  NewestFirst(SelectSeq(msgs, LAMBDA m : m.roomId = roomId),
              1..Len(SelectSeq(msgs, LAMBDA m : m.roomId = roomId)))

\* Message.find({ roomId }).sort({ timestamp: -1 }).limit(50): every order
\* the store may return, newest first, messages of equal timestamp in any order
FindRecent(msgs, roomId) ==
  LET found == SelectSeq(msgs, LAMBDA m : m.roomId = roomId)
  IN { SubSeq(sorted, 1, Min(Len(sorted), RecentLimit)) :
         sorted \in NewestFirst(found, 1..Len(found)) }

----------------------------------------------------------------------------
(* join-room *)

\* activeUsers.set(socket.id, {userId, username, roomId, joinedAt: new Date()})
Register(m, sid, userId, username, roomId, t) ==
  MapSet(m, [sid |-> sid, userId |-> userId, username |-> username,
             roomId |-> roomId, joinedAt |-> t])

\* socket.join(roomId)
SocketJoin(rooms, sid, roomId) == [rooms EXCEPT ![roomId] = @ \cup {sid}]

\* catch (error) { socket.emit('error', { message: 'Failed to join room' }) }
JoinCatch(log, id, sid) == Emit(log, id, "error", SocketEmit(sid), ErrorBody(ErrJoinFailed))

FinishOp(id, result) == [ops EXCEPT ![id].pc = "done", ![id].result = result]

\* the handler's catch block ends the invocation; failedAt remembers the await
\* that threw and cause why: the store rejected the call ("store"), the
\* document was refused ("validation", "duplicate") or a reference was null
FailOp(id, result, cause) ==
  [ops EXCEPT ![id].pc = "done", ![id].result = result,
              ![id].failedAt = ops[id].pc, ![id].cause = cause]

Cause(ok, otherwise) == IF ok THEN otherwise ELSE "store"

InvalidUserData_userId_only(userId, username) == userId = Empty

\* if (!userId || !username)
InvalidUserData(userId, username) == userId = Empty \/ username = Empty

JoinRoom(c, userId, username, roomIdIn, t) ==
  LET roomId == IF roomIdIn = Undefined THEN DefaultRoom ELSE roomIdIn
      id == Len(ops) + 1
      op == [NewOp("join", c) EXCEPT !.userId = userId, !.username = username,
                                     !.roomId = roomId,
                                     !.hadSession = MapHas(activeUsers, c)]
  IN /\ CanStartOn(c)
     /\ Cardinality({i \in OpIds : ops[i].kind = "join"}) < MaxJoins
     /\ IF InvalidUserData(userId, username)
        THEN /\ sent' = Emit(sent, id, "error", SocketEmit(c), ErrorBody(ErrInvalidUser))
             /\ ops' = Append(ops, [op EXCEPT !.result = ErrInvalidUser])
             /\ UNCHANGED <<activeUsers, socketRooms, now>>
        ELSE /\ now' = t
             /\ activeUsers' = Register(activeUsers, c, userId, username, roomId, t)
             /\ socketRooms' = SocketJoin(socketRooms, c, roomId)
             /\ ops' = Append(ops, [op EXCEPT !.pc = "upsertUser", !.ts = t,
                                              !.seen = Len(sent),
                                              !.absent = (roomsDb[roomId] = NoDoc)])
             /\ UNCHANGED sent
     /\ UNCHANGED <<connState, users, roomsDb, messages, failures, clientVars>>

\* await User.findOneAndUpdate({userId}, {username, isOnline: true, ...}, {upsert: true})
JoinUpsertUser(id, ok) ==
  LET op == ops[id]
  IN /\ op.kind = "join" /\ op.pc = "upsertUser"
     /\ failures' = Failed(ok)
     /\ IF ok
        THEN /\ users' = [users EXCEPT ![op.userId] =
                            [userId |-> op.userId, username |-> op.username,
                             isOnline |-> TRUE, socketId |-> op.sid]]
             /\ ops' = [ops EXCEPT ![id].pc = "findRoom"]
             /\ UNCHANGED sent
        ELSE /\ sent' = JoinCatch(sent, id, op.sid)
             /\ ops' = FailOp(id, ErrJoinFailed, Cause(ok, "duplicate"))
             /\ UNCHANGED users
     /\ UNCHANGED <<connState, activeUsers, socketRooms, roomsDb, messages, now, clientVars>>

\* let room = await Room.findOne({ roomId }); if (!room) room = new Room(...);
\* if (!room.participants.includes(userId)) room.participants.push(userId)
JoinFindRoom(id, ok) ==
  LET op == ops[id]
      doc == roomsDb[op.roomId]
  IN /\ op.kind = "join" /\ op.pc = "findRoom"
     /\ failures' = Failed(ok)
     /\ IF ok
        THEN /\ ops' =
                  IF doc = NoDoc
                  THEN [ops EXCEPT ![id].room = NewRoom(op.roomId, op.userId),
                                   ![id].pc = "createRoom"]
                  ELSE IF Includes(doc.participants, op.userId)
                  THEN [ops EXCEPT ![id].room = doc, ![id].pc = "findMessages"]
                  ELSE [ops EXCEPT ![id].room = [doc EXCEPT !.participants = Append(@, op.userId)],
                                   ![id].base = Len(doc.participants),
                                   ![id].pc = "saveRoom"]
             /\ UNCHANGED sent
        ELSE /\ sent' = JoinCatch(sent, id, op.sid)
             /\ ops' = FailOp(id, ErrJoinFailed, Cause(ok, "duplicate"))
     /\ UNCHANGED <<connState, activeUsers, socketRooms, users, roomsDb, messages, now, clientVars>>

\* await room.save() of a new Room: the unique index on roomId rejects a
\* second insert; afterwards the creator is a participant (pre-save hook),
\* so participants.includes(userId) holds and nothing is pushed
JoinCreateRoom(id, ok) ==
  LET op == ops[id]
      saved == PreSaveRoom(op.room)
      inserted == ok /\ roomsDb[op.roomId] = NoDoc
  IN /\ op.kind = "join" /\ op.pc = "createRoom"
     /\ failures' = Failed(ok)
     /\ IF inserted
        THEN /\ roomsDb' = [roomsDb EXCEPT ![op.roomId] = saved]
             /\ ops' =
                  IF Includes(saved.participants, op.userId)
                  THEN [ops EXCEPT ![id].room = saved, ![id].pc = "findMessages"]
                  ELSE [ops EXCEPT ![id].room = [saved EXCEPT !.participants = Append(@, op.userId)],
                                   ![id].base = Len(saved.participants),
                                   ![id].pc = "saveRoom"]
             /\ UNCHANGED sent
        ELSE /\ sent' = JoinCatch(sent, id, op.sid)
             /\ ops' = FailOp(id, ErrJoinFailed, Cause(ok, "duplicate"))
             /\ UNCHANGED roomsDb
     /\ UNCHANGED <<connState, activeUsers, socketRooms, users, messages, now, clientVars>>

\* await room.save() after participants.push(userId): the pushed elements
\* are appended to the stored array ($push)
JoinSaveRoom(id, ok) ==
  LET op == ops[id]
      saved == PreSaveRoom(op.room)
      pushed == SubSeq(saved.participants, op.base + 1, Len(saved.participants))
  IN /\ op.kind = "join" /\ op.pc = "saveRoom"
     /\ failures' = Failed(ok)
     /\ IF ok
        THEN /\ roomsDb' = [roomsDb EXCEPT ![op.roomId].participants = @ \o pushed]
             /\ ops' = [ops EXCEPT ![id].room = saved, ![id].pc = "findMessages"]
             /\ UNCHANGED sent
        ELSE /\ sent' = JoinCatch(sent, id, op.sid)
             /\ ops' = FailOp(id, ErrJoinFailed, Cause(ok, "duplicate"))
             /\ UNCHANGED roomsDb
     /\ UNCHANGED <<connState, activeUsers, socketRooms, users, messages, now, clientVars>>

JoinedRecipients_with_joiner(rooms, sid, roomId) == IoTo(rooms, roomId)

\* socket.to(roomId).emit('user-joined', ...)
JoinedRecipients(rooms, sid, roomId) == SocketTo(rooms, sid, roomId)

\* the emits of a join once the history is fetched: recent-messages to the
\* joiner, user-joined to the others, users-update to the room, join-success
JoinEmits(log, id, op, recent, rooms, online) ==
  LET l1 == IF Len(recent) > 0
            THEN Emit(log, id, "recent-messages", SocketEmit(op.sid), Reverse(recent))
            ELSE log
      l2 == Emit(l1, id, "user-joined", JoinedRecipients(rooms, op.sid, op.roomId),
                 [userId |-> op.userId, username |-> op.username])
      l3 == Emit(l2, id, "users-update", IoTo(rooms, op.roomId), online)
  IN Emit(l3, id, "join-success", SocketEmit(op.sid),
          [roomId |-> op.roomId, roomName |-> op.room.name, onlineUsers |-> online])

\* const recentMessages = await Message.find({ roomId })...; and the rest of the handler
JoinFindMessages(id, ok) ==
  LET op == ops[id]
  IN /\ op.kind = "join" /\ op.pc = "findMessages"
     /\ failures' = Failed(ok)
     /\ IF ok
        THEN /\ \E recent \in FindRecent(messages, op.roomId) :
                  sent' = JoinEmits(sent, id, op, recent, socketRooms,
                                    OnlineUsers(activeUsers, op.roomId))
             /\ ops' = FinishOp(id, "join-success")
        ELSE /\ sent' = JoinCatch(sent, id, op.sid)
             /\ ops' = FailOp(id, ErrJoinFailed, Cause(ok, "duplicate"))
     /\ UNCHANGED <<connState, activeUsers, socketRooms, users, roomsDb, messages, now, clientVars>>

----------------------------------------------------------------------------
(* send-message *)

SendCatch_silent(log, id, sid) == log

\* catch (error) { socket.emit('error', { message: 'Failed to send message' }) }
SendCatch(log, id, sid) == Emit(log, id, "error", SocketEmit(sid), ErrorBody(ErrSendFailed))

SendRecipients_without_sender(rooms, sid, roomId) == SocketTo(rooms, sid, roomId)

\* io.to(roomId).emit('receive-message', ...)
SendRecipients(rooms, sid, roomId) == IoTo(rooms, roomId)

\* new Message({content: content.trim(), sender: userId, roomId, type, timestamp: new Date()})
MessageDoc(id, op) ==
  [id |-> id, content |-> op.content, sender |-> op.userId, roomId |-> op.roomId,
   recipient |-> Null, type |-> op.type, timestamp |-> op.ts]

NotAuthenticated_silent(log, id, sid) == log

\* if (!userInfo) { socket.emit('error', { message: 'User not authenticated' }); return; }
NotAuthenticated(log, id, sid) ==
  Emit(log, id, "error", SocketEmit(sid), ErrorBody(ErrNotAuthenticated))

SendMessage(c, content, typeIn, t) ==
  LET userInfo == MapGet(activeUsers, c)
      type == IF typeIn = Undefined THEN "text" ELSE typeIn
      id == Len(ops) + 1
      op == [NewOp("send", c) EXCEPT !.raw = content, !.type = type, !.hadSession = TRUE]
      Reject(msg) ==
        /\ sent' = Emit(sent, id, "error", SocketEmit(c), ErrorBody(msg))
        /\ ops' = Append(ops, [op EXCEPT !.result = msg])
  IN /\ CanStartOn(c)
     /\ IF userInfo = NoDoc
        THEN \* the payload is not read before the session check
             /\ sent' = NotAuthenticated(sent, id, c)
             /\ ops' = Append(ops, [NewOp("send", c) EXCEPT !.result = ErrNotAuthenticated])
             /\ UNCHANGED now
        ELSE IF IsBlank(content) THEN Reject(ErrEmptyContent) /\ UNCHANGED now
        ELSE IF TooLong(content) THEN Reject(ErrTooLong) /\ UNCHANGED now
        ELSE /\ now' = t
             /\ ops' = Append(ops, [op EXCEPT !.pc = "saveMessage",
                                              !.content = Trim(content),
                                              !.userId = userInfo.userId,
                                              !.username = userInfo.username,
                                              !.roomId = userInfo.roomId,
                                              !.ts = t])
             /\ UNCHANGED sent
     /\ UNCHANGED <<connState, activeUsers, socketRooms, users, roomsDb, messages, failures, clientVars>>

SaveEcho_to_sender(log, id, op) ==
  Emit(log, id, "receive-message", SocketEmit(op.sid),
       [messageId |-> id, content |-> op.content, username |-> op.username,
        userId |-> op.userId, timestamp |-> op.ts, type |-> op.type])

\* between save() and populate() nothing is emitted: the sender has no echo
\* of its own, it is sent its message with the room
SaveEcho(log, id, op) == log

\* const savedMessage = await newMessage.save()
SendSave(id, ok) ==
  LET op == ops[id]
      doc == MessageDoc(id, op)
  IN /\ op.kind = "send" /\ op.pc = "saveMessage"
     /\ failures' = Failed(ok)
     /\ IF ok /\ MessageValid(doc)
        THEN /\ messages' = Append(messages, doc)
             /\ ops' = [ops EXCEPT ![id].pc = "populate"]
             /\ sent' = SaveEcho(sent, id, op)
        ELSE /\ sent' = SendCatch(sent, id, op.sid)
             /\ ops' = FailOp(id, ErrSendFailed, Cause(ok, "validation"))
             /\ UNCHANGED messages
     /\ UNCHANGED <<connState, activeUsers, socketRooms, users, roomsDb, now, clientVars>>

\* await savedMessage.populate('sender', 'username userId'), then the broadcast;
\* savedMessage.sender is null when no User document is found, and reading
\* its username then throws
SendPopulate(id, ok) ==
  LET op == ops[id]
      sender == users[op.userId]
  IN /\ op.kind = "send" /\ op.pc = "populate"
     /\ failures' = Failed(ok)
     /\ IF ok /\ sender # NoDoc
        THEN /\ sent' = Emit(sent, id, "receive-message",
                             SendRecipients(socketRooms, op.sid, op.roomId),
                             [messageId |-> id, content |-> op.content,
                              username |-> sender.username, userId |-> sender.userId,
                              timestamp |-> op.ts, type |-> op.type])
             /\ ops' = [ops EXCEPT ![id].pc = "done", ![id].result = "sent",
                                   ![id].membersAt = socketRooms[op.roomId]]
        ELSE /\ sent' = SendCatch(sent, id, op.sid)
             /\ ops' = FailOp(id, ErrSendFailed, Cause(ok, "null-sender"))
     /\ UNCHANGED <<connState, activeUsers, socketRooms, users, roomsDb, messages, now, clientVars>>

----------------------------------------------------------------------------
(* disconnect *)

\* socket.io removes a closing socket from every room before it emits 'disconnect'
LeaveAll(rooms, sid) == [r \in RoomIds |-> rooms[r] \ {sid}]

\* the disconnect handler up to its first await
OnDisconnect(c) ==
  LET userInfo == MapGet(activeUsers, c)
      op == [NewOp("disconnect", c) EXCEPT
               !.hadSession = userInfo # NoDoc,
               \* the handlers of this socket that are suspended on the store
               !.during = {i \in InFlight : ops[i].sid = c}]
  IN ops' = IF userInfo = NoDoc
            THEN Append(ops, [op EXCEPT !.result = "no-session"])
            ELSE Append(ops, [op EXCEPT !.pc = "updateUser",
                                        !.userId = userInfo.userId,
                                        !.username = userInfo.username,
                                        !.roomId = userInfo.roomId])

\* the transport closes the socket and the 'disconnect' event is dispatched
Disconnect(c) ==
  /\ CanStartOn(c)
  /\ connState' = [connState EXCEPT ![c] = "closed"]
  /\ socketRooms' = LeaveAll(socketRooms, c)
  /\ OnDisconnect(c)
  /\ UNCHANGED <<activeUsers, users, roomsDb, messages, sent, now, failures, clientVars>>

\* socket.to(roomId).emit('user-left', ...); socket.to(roomId).emit('users-update', onlineUsers)
DisconnectEmits(log, id, op, rooms, online) ==
  LET l1 == Emit(log, id, "user-left", SocketTo(rooms, op.sid, op.roomId),
                 [userId |-> op.userId, username |-> op.username])
  IN Emit(l1, id, "users-update", SocketTo(rooms, op.sid, op.roomId), online)

\* await User.findOneAndUpdate({userId}, {isOnline: false, ...}); activeUsers.delete(socket.id);
\* the broadcasts.  A rejected store call goes to the catch block, which only logs.
DisconnectUpdateUser(id, ok) ==
  LET op == ops[id]
      remaining == MapDelete(activeUsers, op.sid)
  IN /\ op.kind = "disconnect" /\ op.pc = "updateUser"
     /\ failures' = Failed(ok)
     /\ IF ok
        THEN /\ users' = IF users[op.userId] = NoDoc THEN users
                         ELSE [users EXCEPT ![op.userId].isOnline = FALSE,
                                            ![op.userId].socketId = Null]
             /\ activeUsers' = remaining
             /\ sent' = DisconnectEmits(sent, id, op, socketRooms,
                                        OnlineUsers(remaining, op.roomId))
             /\ ops' = FinishOp(id, "disconnected")
        ELSE /\ ops' = FailOp(id, "Error handling disconnect", "store")
             /\ UNCHANGED <<users, activeUsers, sent>>
     /\ UNCHANGED <<connState, socketRooms, roomsDb, messages, now, clientVars>>

\* number of disconnect signals a socket's handler has been given
DisconnectSignals(c) == Cardinality({i \in OpIds : ops[i].kind = "disconnect" /\ ops[i].sid = c})

MaxDisconnectSignals == 2

\* a transport that repeats the disconnect signal of a closed socket
DuplicateDisconnect(c) ==
  /\ connState[c] = "closed"
  /\ CanStart
  /\ DisconnectSignals(c) < MaxDisconnectSignals
  /\ OnDisconnect(c)
  /\ UNCHANGED <<connState, activeUsers, socketRooms, users, roomsDb, messages, sent, now, failures, clientVars>>

----------------------------------------------------------------------------
(* typing-start, typing-stop *)

TypingRecipients_with_sender(rooms, sid, roomId) == IoTo(rooms, roomId)

\* socket.to(userInfo.roomId).emit('user-typing', ...)
TypingRecipients(rooms, sid, roomId) == SocketTo(rooms, sid, roomId)

\* the body of both handlers: they differ in the flag they emit
UserTyping(c, typing) ==
  LET userInfo == MapGet(activeUsers, c)
      id == Len(ops) + 1
      op == [NewOp("typing", c) EXCEPT !.typing = typing]
  IN /\ CanStartOn(c)
     /\ IF userInfo # NoDoc
        THEN /\ sent' = Emit(sent, id, "user-typing",
                             TypingRecipients(socketRooms, c, userInfo.roomId),
                             [userId |-> userInfo.userId, username |-> userInfo.username,
                              typing |-> typing])
             /\ ops' = Append(ops, [op EXCEPT !.hadSession = TRUE,
                                              !.userId = userInfo.userId,
                                              !.username = userInfo.username,
                                              !.roomId = userInfo.roomId,
                                              !.result = "user-typing"])
        ELSE /\ ops' = Append(ops, [op EXCEPT !.result = "ignored"])
             /\ UNCHANGED sent
     /\ UNCHANGED <<connState, activeUsers, socketRooms, users, roomsDb, messages, now, failures, clientVars>>

\* socket.on('typing-start')
TypingStart(c) == UserTyping(c, TRUE)

\* socket.on('typing-stop')
TypingStop(c) == UserTyping(c, FALSE)

----------------------------------------------------------------------------
(* private-message *)

ErrOffline == "User is offline"

ErrPrivateFailed == "Failed to send private message"

PrivatePayload(recipientUserId, content) ==
  [recipientUserId |-> recipientUserId, content |-> content]

\* the payloads explored: to a user who may have joined, to "u3" who never
\* joins, and one whose content is all whitespace
PrivatePayloads ==
  { PrivatePayload("u2", Content(0, 1, 0)), PrivatePayload("u3", Content(0, 1, 0)),
    PrivatePayload("u2", Content(2, 0, 0)) }

\* Array.from(activeUsers.entries()).find(([socketId, user]) => user.userId === recipientUserId)
FindRecipient(m, userId) ==
  LET found == SelectSeq(m, LAMBDA e : e.userId = userId)
  IN IF Len(found) = 0 THEN NoDoc ELSE found[1]

\* io.to(recipientSocketId): the room every connected socket has under its own id
IoToSocket(conn, sid) == IF conn[sid] = "open" THEN {sid} ELSE {}

RecipientOffline_silent(log, id, sid) == log

\* else { socket.emit('error', { message: 'User is offline' }) }
RecipientOffline(log, id, sid) ==
  Emit(log, id, "error", SocketEmit(sid), ErrorBody(ErrOffline))

\* catch (error) { socket.emit('error', { message: 'Failed to send private message' }) }
PrivateCatch(log, id, sid) ==
  Emit(log, id, "error", SocketEmit(sid), ErrorBody(ErrPrivateFailed))

\* new Message({content, sender, recipient, type: 'private', timestamp: new Date()});
\* the schema trims content when it is set
PrivateDoc(id, op) ==
  [id |-> id, content |-> op.content, sender |-> op.userId, roomId |-> Null,
   recipient |-> op.recipient, type |-> "private", timestamp |-> op.ts]

PrivateMessage(c, recipientUserId, content, t) ==
  LET senderInfo == MapGet(activeUsers, c)
      recipientSocket == FindRecipient(activeUsers, recipientUserId)
      matching == SelectSeq(activeUsers, LAMBDA e : e.userId = recipientUserId)
      id == Len(ops) + 1
      op == [NewOp("private", c) EXCEPT !.raw = content, !.recipient = recipientUserId,
                                        !.hadSession = TRUE, !.type = "private"]
  IN /\ CanStartOn(c)
     /\ IF senderInfo = NoDoc
        THEN \* if (!senderInfo) return;
             /\ ops' = Append(ops, [NewOp("private", c) EXCEPT !.result = "ignored"])
             /\ UNCHANGED <<sent, now>>
        ELSE IF recipientSocket = NoDoc
        THEN /\ sent' = RecipientOffline(sent, id, c)
             /\ ops' = Append(ops, [op EXCEPT !.userId = senderInfo.userId,
                                              !.result = ErrOffline])
             /\ UNCHANGED now
        ELSE /\ now' = t
             /\ ops' = Append(ops, [op EXCEPT !.pc = "savePrivate",
                                              !.content = Trim(content),
                                              !.userId = senderInfo.userId,
                                              !.recipientSid = recipientSocket.sid,
                                              !.matches = [k \in 1..Len(matching) |->
                                                             matching[k].sid],
                                              !.openAt = {x \in Conns : connState[x] = "open"},
                                              !.ts = t])
             /\ UNCHANGED sent
     /\ UNCHANGED <<connState, activeUsers, socketRooms, users, roomsDb, messages, failures, clientVars>>

\* await privateMessage.save()
PrivateSave(id, ok) ==
  LET op == ops[id]
      doc == PrivateDoc(id, op)
  IN /\ op.kind = "private" /\ op.pc = "savePrivate"
     /\ failures' = Failed(ok)
     /\ IF ok /\ MessageValid(doc)
        THEN /\ messages' = Append(messages, doc)
             /\ ops' = [ops EXCEPT ![id].pc = "populatePrivate"]
             /\ UNCHANGED sent
        ELSE /\ sent' = PrivateCatch(sent, id, op.sid)
             /\ ops' = FailOp(id, ErrPrivateFailed, Cause(ok, "validation"))
             /\ UNCHANGED messages
     /\ UNCHANGED <<connState, activeUsers, socketRooms, users, roomsDb, now, clientVars>>

\* await privateMessage.populate('sender', ...), then the delivery to the
\* recipient's socket and the confirmation to the sender
PrivatePopulate(id, ok) ==
  LET op == ops[id]
      sender == users[op.userId]
      delivered == Emit(sent, id, "private-message", IoToSocket(connState, op.recipientSid),
                        [messageId |-> id, content |-> op.content,
                         username |-> sender.username, userId |-> sender.userId,
                         timestamp |-> op.ts, type |-> "private"])
  IN /\ op.kind = "private" /\ op.pc = "populatePrivate"
     /\ failures' = Failed(ok)
     /\ IF ok /\ sender # NoDoc
        THEN /\ sent' = Emit(delivered, id, "message-sent", SocketEmit(op.sid),
                             [messageId |-> id])
             /\ ops' = FinishOp(id, "message-sent")
        ELSE /\ sent' = PrivateCatch(sent, id, op.sid)
             /\ ops' = FailOp(id, ErrPrivateFailed, Cause(ok, "null-sender"))
     /\ UNCHANGED <<connState, activeUsers, socketRooms, users, roomsDb, messages, now, clientVars>>

\* Message.getPrivateMessages(userId1, userId2): the private messages between
\* the two users, newest first, every order the store may return
GetPrivateMessages(msgs, userId1, userId2) ==
  LET found == SelectSeq(msgs, LAMBDA m :
                  /\ m.type = "private"
                  /\ \/ m.sender = userId1 /\ m.recipient = userId2
                     \/ m.sender = userId2 /\ m.recipient = userId1)
  IN { SubSeq(sorted, 1, Min(Len(sorted), RecentLimit)) :
         sorted \in NewestFirst(found, 1..Len(found)) }

----------------------------------------------------------------------------
Next ==
  \/ \E c \in Conns, p \in JoinPayloads , t \in ClockReads :
       JoinRoom(c, p.userId, p.username, p.roomId, t)
  \/ \E id \in OpIds, ok \in Outcomes : JoinUpsertUser(id, ok)
  \/ \E id \in OpIds, ok \in Outcomes : JoinFindRoom(id, ok)
  \/ \E id \in OpIds, ok \in Outcomes : JoinCreateRoom(id, ok)
  \/ \E id \in OpIds, ok \in Outcomes : JoinSaveRoom(id, ok)
  \/ \E id \in OpIds, ok \in Outcomes : JoinFindMessages(id, ok)
  \/ \E c \in Conns, p \in SendPayloads , t \in ClockReads :
       SendMessage(c, p.content, p.type, t)
  \/ \E id \in OpIds, ok \in Outcomes : SendSave(id, ok)
  \/ \E id \in OpIds, ok \in Outcomes : SendPopulate(id, ok)
  \/ \E c \in Conns : Disconnect(c)
  \/ \E id \in OpIds, ok \in Outcomes : DisconnectUpdateUser(id, ok)

Spec == Init /\ [][Next]_vars

\* the same program under a transport that may repeat a disconnect signal
NextDup == Next \/ \E c \in Conns : DuplicateDisconnect(c)

SpecDup == Init /\ [][NextDup]_vars

\* the state after socket s1 has joined the default room as u1 and every
\* handler has finished: the logs of invocations and emits start afresh
InitJoined ==
  /\ connState = [c \in Conns |-> "open"]
  /\ activeUsers = Register(<<>>, "s1", "u1", "alice", DefaultRoom, 0)
  /\ socketRooms = SocketJoin([r \in RoomIds |-> {}], "s1", DefaultRoom)
  /\ users = [u \in UserIds |->
                IF u = "u1"
                THEN [userId |-> "u1", username |-> "alice", isOnline |-> TRUE,
                      socketId |-> "s1"]
                ELSE NoDoc]
  /\ roomsDb = [r \in RoomIds |->
                  IF r = DefaultRoom THEN PreSaveRoom(NewRoom(DefaultRoom, "u1")) ELSE NoDoc]
  /\ messages = <<>>
  /\ ops = <<>>
  /\ sent = <<>>
  /\ now = 0
  /\ failures = 0
  /\ ClientInit

\* the same handlers, started from a room that already has a member
SpecJoined == InitJoined /\ [][Next]_vars

\* the handlers that create and destroy sessions
JoinSteps ==
  \/ \E c \in Conns, p \in JoinPayloads , t \in ClockReads :
       JoinRoom(c, p.userId, p.username, p.roomId, t)
  \/ \E id \in OpIds, ok \in Outcomes : JoinUpsertUser(id, ok)
  \/ \E id \in OpIds, ok \in Outcomes : JoinFindRoom(id, ok)
  \/ \E id \in OpIds, ok \in Outcomes : JoinCreateRoom(id, ok)
  \/ \E id \in OpIds, ok \in Outcomes : JoinSaveRoom(id, ok)
  \/ \E id \in OpIds, ok \in Outcomes : JoinFindMessages(id, ok)

DisconnectSteps ==
  \/ \E c \in Conns : Disconnect(c)
  \/ \E id \in OpIds, ok \in Outcomes : DisconnectUpdateUser(id, ok)

\* joins, disconnects and typing indicators
NextTyping ==
  \/ JoinSteps
  \/ DisconnectSteps
  \/ \E c \in Conns : TypingStart(c)
  \/ \E c \in Conns : TypingStop(c)

SpecTyping == Init /\ [][NextTyping]_vars

\* joins, disconnects and private messages
NextPrivate ==
  \/ JoinSteps
  \/ DisconnectSteps
  \/ \E c \in Conns, p \in PrivatePayloads , t \in ClockReads :
       PrivateMessage(c, p.recipientUserId, p.content, t)
  \/ \E id \in OpIds, ok \in Outcomes : PrivateSave(id, ok)
  \/ \E id \in OpIds, ok \in Outcomes : PrivatePopulate(id, ok)

SpecPrivate == Init /\ [][NextPrivate]_vars

\* the state after sockets s1 and s2, two tabs of one user, have joined the
\* default room as u2, s1 first
InitTwoTabs ==
  /\ connState = [c \in Conns |-> "open"]
  /\ activeUsers = Register(Register(<<>>, "s1", "u2", "bob", DefaultRoom, 0),
                            "s2", "u2", "bob", DefaultRoom, 0)
  /\ socketRooms = SocketJoin(SocketJoin([r \in RoomIds |-> {}], "s1", DefaultRoom),
                              "s2", DefaultRoom)
  /\ users = [u \in UserIds |->
                IF u = "u2"
                THEN [userId |-> "u2", username |-> "bob", isOnline |-> TRUE,
                      socketId |-> "s2"]
                ELSE NoDoc]
  /\ roomsDb = [r \in RoomIds |->
                  IF r = DefaultRoom THEN PreSaveRoom(NewRoom(DefaultRoom, "u2")) ELSE NoDoc]
  /\ messages = <<>>
  /\ ops = <<>>
  /\ sent = <<>>
  /\ now = 0
  /\ failures = 0
  /\ ClientInit

\* joins, disconnects and private messages while one user has two sessions
SpecTwoTabs == InitTwoTabs /\ [][NextPrivate]_vars

\* a timestamp before the server started; distinct for k \in 0..52 and not in
\* the order the documents were inserted
PastTime(k) == 0 - (((7 * k) % 53) + 1)

\* a room message stored by an earlier run of the server
StoredMessage(k, roomId) ==
  [id |-> 100 + k, content |-> Content(0, 1, 0), sender |-> "u2", roomId |-> roomId,
   recipient |-> Null, type |-> "text", timestamp |-> PastTime(k)]

\* numbers of stored messages around the limit of the page
PageSizes == {RecentLimit, RecentLimit + 1}

\* the server started over a store that holds a full history: the default
\* room with about one page of messages, and the room 'dev' either absent
\* or with one message, which is the newest message of the store
InitPage ==
  /\ connState = [c \in Conns |-> "open"]
  /\ activeUsers = <<>>
  /\ socketRooms = [r \in RoomIds |-> {}]
  /\ users = [u \in UserIds |->
                IF u = "u2"
                THEN [userId |-> "u2", username |-> "bob", isOnline |-> FALSE,
                      socketId |-> Null]
                ELSE NoDoc]
  /\ \E n \in PageSizes, d \in 0..1 :
       /\ roomsDb = [r \in RoomIds |->
                       IF r = DefaultRoom \/ d = 1 THEN PreSaveRoom(NewRoom(r, "u2"))
                       ELSE NoDoc]
       /\ messages = [k \in 1..d |-> StoredMessage(0, "dev")]
                     \o [k \in 1..n |-> StoredMessage(k, DefaultRoom)]
  /\ ops = <<>>
  /\ sent = <<>>
  /\ now = 0
  /\ failures = 0
  /\ ClientInit

\* joins and disconnects over a store with a full history
NextPage == JoinSteps \/ DisconnectSteps

SpecPage == InitPage /\ [][NextPage]_vars

----------------------------------------------------------------------------
(* Room documents through the Room methods (models/Room.js) and the REST   *)
(* routes that call them (routes/chatRoutes.js).  A document is loaded     *)
(* with findOne, changed in memory by the method, and written by save():   *)
(* pushed elements are appended to the stored array, a reassigned array    *)
(* replaces it, and the pre-save hook runs on the copy in memory.          *)

ErrMaxParticipants == "Room has reached maximum participant limit"

ErrNotParticipant == "User must be a participant before becoming admin"

ErrCreatorAdmin == "Cannot remove room creator as admin"

\* body('settings.maxParticipants').isInt({ min: 2, max: 500 }): the smallest limit
RestMaxParticipants == 2

\* req.user.userId of the REST requests and the userId given to the methods
RoomUsers == {"u2", "u3"}

Without(seq, x) == SelectSeq(seq, LAMBDA y : y # x)

\* roomSchema.methods.addParticipant: the document in memory before save(),
\* or the error thrown; "same" when there is nothing to save
AddParticipant(room, userId) ==
  IF Includes(room.participants, userId) THEN [room |-> room, outcome |-> "same"]
  ELSE IF Len(room.participants) >= room.maxParticipants
  THEN [room |-> room, outcome |-> ErrMaxParticipants]
  ELSE [room |-> [room EXCEPT !.participants = Append(@, userId)], outcome |-> "save"]

RemoveParticipant_keeps_admin(room, userId) ==
  [room |-> [room EXCEPT !.participants = Without(@, userId)], outcome |-> "save"]

\* roomSchema.methods.removeParticipant: both arrays are reassigned
RemoveParticipant(room, userId) ==
  [room |-> [room EXCEPT !.participants = Without(@, userId), !.admins = Without(@, userId)],
   outcome |-> "save"]

\* roomSchema.methods.addAdmin
AddAdmin(room, userId) ==
  IF ~Includes(room.participants, userId) THEN [room |-> room, outcome |-> ErrNotParticipant]
  ELSE IF Includes(room.admins, userId) THEN [room |-> room, outcome |-> "same"]
  ELSE [room |-> [room EXCEPT !.admins = Append(@, userId)], outcome |-> "save"]

\* roomSchema.methods.removeAdmin
RemoveAdmin(room, userId) ==
  IF userId = room.createdBy THEN [room |-> room, outcome |-> ErrCreatorAdmin]
  ELSE [room |-> [room EXCEPT !.admins = Without(@, userId)], outcome |-> "save"]

RoomMethods == {"addParticipant", "removeParticipant", "addAdmin", "removeAdmin"}

CallMethod(method, room, userId) ==
  CASE method = "addParticipant" -> AddParticipant(room, userId)
    [] method = "removeParticipant" -> RemoveParticipant(room, userId)
    [] method = "addAdmin" -> AddAdmin(room, userId)
    [] method = "removeAdmin" -> RemoveAdmin(room, userId)

\* the invocation record of a method called on a freshly loaded document
RoomOp(kind, method, loaded, userId, roomId) ==
  LET called == CallMethod(method, loaded, userId)
      op == [NewOp(kind, Null) EXCEPT !.userId = userId, !.roomId = roomId]
  IN IF called.outcome = "save"
     THEN [op EXCEPT !.pc = "saveRoomDoc", !.room = called.room,
                     !.base = Len(loaded.participants),
                     !.adminBase = Len(loaded.admins),
                     !.setParticipants = (method = "removeParticipant"),
                     !.setAdmins = (method \in {"removeParticipant", "removeAdmin"})]
     ELSE [op EXCEPT !.result = called.outcome]

\* POST /rooms: new Room({..., createdBy: req.user.userId, settings: {maxParticipants}})
\* and save(); the route draws a fresh roomId
RestCreateRoom(userId, roomId, ok) ==
  LET room == [NewRoom(roomId, userId) EXCEPT !.maxParticipants = RestMaxParticipants]
      op == [NewOp("rest-create", Null) EXCEPT !.userId = userId, !.roomId = roomId]
  IN /\ CanStart
     /\ roomsDb[roomId] = NoDoc
     /\ failures' = Failed(ok)
     /\ IF ok
        THEN /\ roomsDb' = [roomsDb EXCEPT ![roomId] = PreSaveRoom(room)]
             /\ ops' = Append(ops, [op EXCEPT !.result = "Room created successfully"])
        ELSE /\ ops' = Append(ops, [op EXCEPT !.result = "Server error creating room",
                                              !.cause = "store"])
             /\ UNCHANGED roomsDb
     /\ UNCHANGED <<connState, activeUsers, socketRooms, users, messages, sent, now, clientVars>>

\* POST /rooms/:roomId/join up to room.addParticipant(...)'s save()
RestJoin(userId, roomId) ==
  LET loaded == roomsDb[roomId]
      op == [NewOp("rest-join", Null) EXCEPT !.userId = userId, !.roomId = roomId]
  IN /\ CanStart
     /\ ops' = Append(ops,
          IF loaded = NoDoc THEN [op EXCEPT !.result = "Room not found"]
          ELSE IF Includes(loaded.participants, userId)
          THEN [op EXCEPT !.result = "You are already a member of this room"]
          ELSE RoomOp("rest-join", "addParticipant", loaded, userId, roomId))
     /\ UNCHANGED <<connState, activeUsers, socketRooms, users, roomsDb, messages, sent, now,
                    failures, clientVars>>

\* POST /rooms/:roomId/leave up to room.removeParticipant(...)'s save()
RestLeave(userId, roomId) ==
  LET loaded == roomsDb[roomId]
      op == [NewOp("rest-leave", Null) EXCEPT !.userId = userId, !.roomId = roomId]
  IN /\ CanStart
     /\ ops' = Append(ops,
          IF loaded = NoDoc THEN [op EXCEPT !.result = "Room not found"]
          ELSE IF ~Includes(loaded.participants, userId)
          THEN [op EXCEPT !.result = "You are not a member of this room"]
          ELSE IF loaded.createdBy = userId /\ Len(loaded.participants) > 1
          THEN [op EXCEPT !.result =
                  "Room creator cannot leave while other participants are present"]
          ELSE RoomOp("rest-leave", "removeParticipant", loaded, userId, roomId))
     /\ UNCHANGED <<connState, activeUsers, socketRooms, users, roomsDb, messages, sent, now,
                    failures, clientVars>>

\* a Room method called on the document Room.findOne returned
RoomCall(method, userId, roomId) ==
  /\ CanStart
  /\ roomsDb[roomId] # NoDoc
  /\ ops' = Append(ops, RoomOp(method, method, roomsDb[roomId], userId, roomId))
  /\ UNCHANGED <<connState, activeUsers, socketRooms, users, roomsDb, messages, sent, now,
                 failures, clientVars>>

RoomSave_no_hook(room) == room

\* the document save() writes: roomSchema.pre('save') has run on it
RoomSaved(room) == PreSaveRoom(room)

\* return this.save() of a method.  The user document the REST routes update
\* next (req.user.joinRoom / leaveRoom) is outside the state modelled here.
RoomSave(id, ok) ==
  LET op == ops[id]
      saved == RoomSaved(op.room)
      stored == roomsDb[op.roomId]
      participants == IF op.setParticipants THEN saved.participants
                      ELSE stored.participants \o
                           SubSeq(saved.participants, op.base + 1, Len(saved.participants))
      admins == IF op.setAdmins THEN saved.admins
                ELSE stored.admins \o SubSeq(saved.admins, op.adminBase + 1, Len(saved.admins))
  IN /\ op.pc = "saveRoomDoc"
     /\ failures' = Failed(ok)
     /\ IF ok
        THEN /\ roomsDb' = [roomsDb EXCEPT ![op.roomId].participants = participants,
                                           ![op.roomId].admins = admins]
             /\ ops' = FinishOp(id, "saved")
        ELSE /\ ops' = FailOp(id, "Server error", "store")
             /\ UNCHANGED roomsDb
     /\ UNCHANGED <<connState, activeUsers, socketRooms, users, messages, sent, now, clientVars>>

\* socket joins, REST room requests and Room method calls
NextRoom ==
  \/ JoinSteps
  \/ \E u \in RoomUsers, r \in RoomIds, ok \in Outcomes : RestCreateRoom(u, r, ok)
  \/ \E u \in RoomUsers, r \in RoomIds : RestJoin(u, r)
  \/ \E u \in RoomUsers, r \in RoomIds : RestLeave(u, r)
  \/ \E m \in RoomMethods, u \in RoomUsers, r \in RoomIds : RoomCall(m, u, r)
  \/ \E id \in OpIds, ok \in Outcomes : RoomSave(id, ok)

SpecRoom == Init /\ [][NextRoom]_vars

\* REST room requests and Room method calls made one after the other: a
\* request starts when the previous one has been answered
NextRoomSeq ==
  \/ /\ InFlight = {}
     /\ \/ \E u \in RoomUsers, r \in RoomIds, ok \in Outcomes : RestCreateRoom(u, r, ok)
        \/ \E u \in RoomUsers, r \in RoomIds : RestJoin(u, r)
        \/ \E u \in RoomUsers, r \in RoomIds : RestLeave(u, r)
        \/ \E m \in RoomMethods, u \in RoomUsers, r \in RoomIds : RoomCall(m, u, r)
  \/ \E id \in OpIds, ok \in Outcomes : RoomSave(id, ok)

\* starting with the default room stored, created by u2
SpecRoomSeq == InitTwoTabs /\ [][NextRoomSeq]_vars

----------------------------------------------------------------------------
(* The client's typing indicator (Frontend Folder/script_js.js) *)

MaxClientEmits == 6     \* events the client emits
MaxTypingEvents == 5

\* this.currentUser of the page, and the users whose user-typing events reach it
CurrentUser == [userId |-> "me", username |-> "Me"]

ClientUsers ==
  { CurrentUser,
    [userId |-> "u1", username |-> "Alice"], [userId |-> "u2", username |-> "Bob"],
    [userId |-> "u3", username |-> "Carol"], [userId |-> "u4", username |-> "Dave"] }

SetAdd_moves_to_end(set, x) == Append(SelectSeq(set, LAMBDA y : y # x), x)

\* Set.prototype.add: a value already in the Set keeps its place
SetAdd(set, x) == IF Includes(set, x) THEN set ELSE Append(set, x)

\* Set.prototype.delete
SetDelete(set, x) == SelectSeq(set, LAMBDA y : y # x)

\* `${typingArray.length - 2}`: the decimal digits of a small number
NumStr(n) ==
  CASE n = 0 -> "0" [] n = 1 -> "1" [] n = 2 -> "2" [] n = 3 -> "3" [] n = 4 -> "4"
    [] n = 5 -> "5" [] n = 6 -> "6" [] n = 7 -> "7" [] n = 8 -> "8" [] n = 9 -> "9"

\* the template strings of updateTypingDisplay, as the sequence of their pieces
TypingText(typingArray) ==
  IF Len(typingArray) = 1
  THEN <<typingArray[1], " is typing...">>
  ELSE IF Len(typingArray) = 2
  THEN <<typingArray[1], " and ", typingArray[2], " are typing...">>
  ELSE <<typingArray[1], ", ", typingArray[2], " and ", NumStr(Len(typingArray) - 2),
         " others are typing...">>

\* updateTypingDisplay(): with an empty Set only the class changes
UpdateTypingDisplay(set) ==
  IF Len(set) = 0
  THEN /\ typingIndicator' = "hidden"
       /\ UNCHANGED typingText
  ELSE /\ typingText' = TypingText(set)
       /\ typingIndicator' = "shown"

\* socket.on('user-typing') -> handleTypingIndicator(userId, username, typing)
HandleTypingIndicator(userId, username, typing) ==
  /\ Len(typingEvents) < MaxTypingEvents
  /\ typingEvents' = Append(typingEvents,
                            [userId |-> userId, username |-> username, typing |-> typing])
  /\ IF userId = CurrentUser.userId
     THEN UNCHANGED <<typingUsers, typingIndicator, typingText>>
     ELSE /\ typingUsers' = IF typing THEN SetAdd(typingUsers, username)
                                      ELSE SetDelete(typingUsers, username)
          /\ UpdateTypingDisplay(typingUsers')
  /\ UNCHANGED <<serverVars, inputVars>>

NextClient ==
  \E u \in ClientUsers, typing \in BOOLEAN : HandleTypingIndicator(u.userId, u.username, typing)

SpecClient == Init /\ [][NextClient]_vars

\* the delay of the typing timer, 2000 ms, in ticks of 1000 ms
TypingDelay == 2

\* values of the message field: empty, one space, one letter
InputValues == {Content(0, 0, 0), Content(1, 0, 0), Content(0, 1, 0)}

\* handleJoinChat(): this.currentUser is set and initializeSocket() emits
\* join-room; the modal is hidden afterwards
HandleJoinChat ==
  /\ currentUser = NoDoc
  /\ currentUser' = CurrentUser
  /\ clientEmits' = Append(clientEmits, "join-room")
  /\ UNCHANGED <<isConnected, messageInput, typingTimeout, serverVars, indicatorVars>>

\* socket.on('connected') and socket.on('disconnected'): updateConnectionStatus
UpdateConnectionStatus(connected) ==
  /\ currentUser # NoDoc
  /\ isConnected # connected
  /\ isConnected' = connected
  /\ UNCHANGED <<currentUser, messageInput, typingTimeout, clientEmits, serverVars, indicatorVars>>

HandleTyping_no_timeout ==
  IF currentUser = NoDoc
  THEN UNCHANGED <<typingTimeout, clientEmits>>
  ELSE /\ clientEmits' = Append(clientEmits, "typing-start")
       /\ UNCHANGED typingTimeout

\* handleTyping(): typing-start is emitted, the pending timer is cleared and a
\* new one is set
HandleTyping ==
  IF currentUser = NoDoc
  THEN UNCHANGED <<typingTimeout, clientEmits>>
  ELSE /\ clientEmits' = Append(clientEmits, "typing-start")
       /\ typingTimeout' = <<TypingDelay>>

\* a key other than Enter is pressed in the message field: the keypress
\* listener calls handleTyping() and the field takes its new value
KeyPress(value) ==
  /\ Len(clientEmits) + 1 < MaxClientEmits
  /\ value # messageInput
  /\ messageInput' = value
  /\ HandleTyping
  /\ UNCHANGED <<currentUser, isConnected, serverVars, indicatorVars>>

\* handleSendMessage(), on a click of the send button or on Enter; the timer
\* of handleTyping is left pending
HandleSendMessage ==
  /\ Len(clientEmits) + 2 < MaxClientEmits
  /\ StrLength(Trim(messageInput)) # 0
  /\ isConnected
  /\ clientEmits' = clientEmits \o <<"send-message", "typing-stop">>
  /\ messageInput' = Content(0, 0, 0)
  /\ UNCHANGED <<currentUser, isConnected, typingTimeout, serverVars, indicatorVars>>

\* 1000 ms pass; a timer that is due runs first
Tick ==
  /\ typingTimeout # <<>>
  /\ typingTimeout[1] > 0
  /\ typingTimeout' = <<typingTimeout[1] - 1>>
  /\ UNCHANGED <<currentUser, isConnected, messageInput, clientEmits, serverVars, indicatorVars>>

\* the callback of setTimeout(..., 2000) in handleTyping
TypingTimeoutFires ==
  /\ typingTimeout = <<0>>
  /\ typingTimeout' = <<>>
  /\ clientEmits' = Append(clientEmits, "typing-stop")
  /\ UNCHANGED <<currentUser, isConnected, messageInput, serverVars, indicatorVars>>

\* the message field of the page, its timer and its connection status
NextInput ==
  \/ HandleJoinChat
  \/ \E connected \in BOOLEAN : UpdateConnectionStatus(connected)
  \/ \E value \in InputValues : KeyPress(value)
  \/ HandleSendMessage
  \/ Tick
  \/ TypingTimeoutFires

\* time passes and the event loop runs the timers that are due
SpecInput == Init /\ [][NextInput]_vars /\ WF_vars(Tick) /\ WF_vars(TypingTimeoutFires)

\* join payloads with the userId of alice under another username, and of
\* another user
RenamePayloads ==
  { JoinPayload("u1", "al", "dev"), JoinPayload("u2", "bob", DefaultRoom) }

\* joins with these payloads, and sends
NextRename ==
  \/ \E c \in Conns, p \in RenamePayloads, t \in ClockReads :
       JoinRoom(c, p.userId, p.username, p.roomId, t)
  \/ \E id \in OpIds, ok \in Outcomes : JoinUpsertUser(id, ok)
  \/ \E id \in OpIds, ok \in Outcomes : JoinFindRoom(id, ok)
  \/ \E id \in OpIds, ok \in Outcomes : JoinCreateRoom(id, ok)
  \/ \E id \in OpIds, ok \in Outcomes : JoinSaveRoom(id, ok)
  \/ \E id \in OpIds, ok \in Outcomes : JoinFindMessages(id, ok)
  \/ \E c \in Conns, p \in SendPayloads, t \in ClockReads :
       SendMessage(c, p.content, p.type, t)
  \/ \E id \in OpIds, ok \in Outcomes : SendSave(id, ok)
  \/ \E id \in OpIds, ok \in Outcomes : SendPopulate(id, ok)

SpecRename == InitJoined /\ [][NextRename]_vars

\* a client emits an event to leave its room: io.on('connection') registers
\* join-room, send-message, typing-start, typing-stop, private-message and
\* disconnect only, and an event without a listener is dropped
LeaveRoom(c) ==
  /\ CanStartOn(c)
  /\ ops' = Append(ops, [NewOp("leave", c) EXCEPT !.result = "ignored",
                                                  !.hadSession = MapHas(activeUsers, c)])
  /\ UNCHANGED <<connState, activeUsers, socketRooms, users, roomsDb, messages, sent, now,
                 failures, clientVars>>

\* joins, disconnects and requests to leave
NextLeave ==
  \/ JoinSteps
  \/ DisconnectSteps
  \/ \E c \in Conns : LeaveRoom(c)

SpecLeave == Init /\ [][NextLeave]_vars

\* the socket of the page whose typing indicator is observed
PageSocket == "s2"

\* the user-typing events emitted to the page's socket, in emit order
TypingInbox == SelectSeq(sent, LAMBDA e : e.ev = "user-typing" /\ PageSocket \in e.to)

\* the page handles the next user-typing event of its socket; a closed
\* socket delivers nothing
DeliverTyping ==
  /\ connState[PageSocket] = "open"
  /\ Len(typingEvents) < Len(TypingInbox)
  /\ LET e == TypingInbox[Len(typingEvents) + 1].body
     IN HandleTypingIndicator(e.userId, e.username, e.typing)

\* the server's disconnect and typing handlers with a page on s2
NextTypingPage ==
  \/ DisconnectSteps
  \/ \E c \in Conns : TypingStart(c)
  \/ \E c \in Conns : TypingStop(c)
  \/ DeliverTyping

\* the state after s1 has joined the default room as u1/alice and then s2,
\* the page's socket, as u2/bob
InitRoomOfTwo ==
  /\ connState = [c \in Conns |-> "open"]
  /\ activeUsers = Register(Register(<<>>, "s1", "u1", "alice", DefaultRoom, 0),
                            "s2", "u2", "bob", DefaultRoom, 0)
  /\ socketRooms = SocketJoin(SocketJoin([r \in RoomIds |-> {}], "s1", DefaultRoom),
                              "s2", DefaultRoom)
  /\ users = [u \in UserIds |->
                [userId |-> u, username |-> (IF u = "u1" THEN "alice" ELSE "bob"),
                 isOnline |-> TRUE, socketId |-> (IF u = "u1" THEN "s1" ELSE "s2")]]
  /\ roomsDb = [r \in RoomIds |->
                  IF r = DefaultRoom
                  THEN [PreSaveRoom(NewRoom(DefaultRoom, "u1")) EXCEPT
                          !.participants = Append(@, "u2")]
                  ELSE NoDoc]
  /\ messages = <<>>
  /\ ops = <<>>
  /\ sent = <<>>
  /\ now = 0
  /\ failures = 0
  /\ ClientInit

\* every handler that can continue and every event that can be delivered
\* eventually is
SpecTypingPage == InitRoomOfTwo /\ [][NextTypingPage]_vars /\ WF_vars(NextTypingPage)

----------------------------------------------------------------------------
(* Vocabulary of the properties *)

HasSession(c) == MapHas(activeUsers, c)

\* the sockets whose session names the room
SessionsIn(r) == {c \in Conns : HasSession(c) /\ MapGet(activeUsers, c).roomId = r}

RoomsOf(c) == {r \in RoomIds : c \in socketRooms[r]}

JoinsOn(c) == {i \in OpIds : ops[i].kind = "join" /\ ops[i].sid = c}

SentIds == 1..Len(sent)

\* the emits of one kind made by one handler invocation
EmitsOf(i, ev) == {k \in SentIds : sent[k].op = i /\ sent[k].ev = ev}

\* the receive-message emits that carry message m
ReceiveMessages(m) ==
  {k \in SentIds : sent[k].ev = "receive-message" /\ sent[k].body.messageId = m}

\* how many receive-message events for message m were emitted to socket c
Received(c, m) == Cardinality({k \in ReceiveMessages(m) : c \in sent[k].to})

Stored(m) == \E k \in 1..Len(messages) : messages[k].id = m

\* the error events an invocation reported to its own socket, with one text
ErrorsTo(i, msg) ==
  {k \in EmitsOf(i, "error") : sent[k].to = {ops[i].sid} /\ sent[k].body.message = msg}

\* no emit of the invocation reaches another socket
OnlyToOriginator(i) == \A k \in SentIds : sent[k].op = i => sent[k].to \subseteq {ops[i].sid}

SendOps == {i \in OpIds : ops[i].kind = "send"}

----------------------------------------------------------------------------
(* C1: once every handler has finished, after joins and disconnects on     *)
(* distinct connections (no connection joins twice), the sockets of each   *)
(* room's fan-out set are exactly the sockets whose session names the room *)
C1_NoDrift ==
  ( /\ Settled
    /\ \A i \in OpIds : ops[i].kind \in {"join", "disconnect"}
    /\ \A c \in Conns : Cardinality(JoinsOn(c)) <= 1 )
  => \A r \in RoomIds : socketRooms[r] = SessionsIn(r)

(* C2: a socket is in the fan-out set of at most one room at any instant *)
C2_AtMostOneRoom == \A c \in Conns : Cardinality(RoomsOf(c)) <= 1

(* C3: the handling of a second disconnect signal of a socket emits no     *)
(* user-left and no users-update                                           *)
C3_SecondDisconnectSilent ==
  \A i, j \in OpIds :
    ( /\ i < j
      /\ ops[i].kind = "disconnect" /\ ops[j].kind = "disconnect"
      /\ ops[i].sid = ops[j].sid )
    => EmitsOf(j, "user-left") \cup EmitsOf(j, "users-update") = {}

(* C4: once a disconnect handler has finished, the socket has no session   *)
(* in activeUsers, whatever the store answered                             *)
C4_DisconnectRemovesSession ==
  \A i \in OpIds :
    (ops[i].kind = "disconnect" /\ ops[i].pc = "done") => ~HasSession(ops[i].sid)

(* C5: when a join has reported 'Failed to join room', the socket has no   *)
(* session and is in no room                                               *)
C5_NoOrphanedSession ==
  \A i \in OpIds :
    (ops[i].kind = "join" /\ ops[i].result = ErrJoinFailed)
    => ~HasSession(ops[i].sid) /\ RoomsOf(ops[i].sid) = {}

(* C6: a join event on a socket that has a session leaves that session     *)
(* (userId, username, roomId, joinedAt) as it was                           *)
C6_JoinKeepsExistingSession ==
  [][ \A c \in Conns :
        ( /\ HasSession(c)
          /\ Len(ops') = Len(ops) + 1
          /\ ops'[Len(ops')].kind = "join"
          /\ ops'[Len(ops')].sid = c )
        => MapGet(activeUsers', c) = MapGet(activeUsers, c) ]_vars

(* C7: every receive-message carries a message that is in the store, and a *)
(* send whose save failed reports exactly one error, to the originator     *)
(* only, and no receive-message is emitted for it                          *)
C7_BroadcastOnlyAfterPersist ==
  /\ \A k \in SentIds : sent[k].ev = "receive-message" => Stored(sent[k].body.messageId)
  /\ \A i \in SendOps :
       ops[i].failedAt = "saveMessage"
       => /\ ~Stored(i)
          /\ Cardinality(EmitsOf(i, "error")) = 1
          /\ Cardinality(ErrorsTo(i, ErrSendFailed)) = 1
          /\ ReceiveMessages(i) = {}

\* the store rejected the save of a text message while its room had members
C7_Witness ==
  \E i \in SendOps :
    /\ ops[i].failedAt = "saveMessage" /\ ops[i].cause = "store"
    /\ socketRooms[ops[i].roomId] # {}

(* C8: a send that succeeded emitted exactly one receive-message for its   *)
(* message to every socket that was in the room at the broadcast, the      *)
(* sender included as long as its socket is open                           *)
C8_SendReachesEveryMember ==
  \A i \in SendOps :
    ops[i].result = "sent"
    => /\ \A c \in ops[i].membersAt : Received(c, i) = 1
       /\ connState[ops[i].sid] = "open"
          => ops[i].sid \in ops[i].membersAt /\ Received(ops[i].sid, i) = 1

\* a send succeeded in a room that held the sender and another socket
C8_Witness ==
  \E i \in SendOps :
    /\ ops[i].result = "sent"
    /\ ops[i].sid \in ops[i].membersAt
    /\ Cardinality(ops[i].membersAt) = 2

(* C9: a send with a session whose content is empty or all whitespace is   *)
(* answered with 'Message content cannot be empty' to the originator only; *)
(* nothing is stored and no receive-message is emitted                     *)
C9_BlankContentRejected ==
  \A i \in SendOps :
    (ops[i].hadSession /\ ops[i].raw.core = 0)
    => /\ ops[i].pc = "done" /\ ops[i].result = ErrEmptyContent
       /\ Cardinality(EmitsOf(i, "error")) = 1
       /\ Cardinality(ErrorsTo(i, ErrEmptyContent)) = 1
       /\ OnlyToOriginator(i)
       /\ ~Stored(i)
       /\ ReceiveMessages(i) = {}

\* an empty and an all-whitespace content were both sent with a session
C9_Witness ==
  /\ \E i \in SendOps : ops[i].hadSession /\ ops[i].raw = Content(0, 0, 0)
  /\ \E i \in SendOps : ops[i].hadSession /\ ops[i].raw = Content(2, 0, 0)

(* C10: a non-blank content sent with a session is rejected with 'Message  *)
(* too long', nothing stored or broadcast, exactly when it has more than   *)
(* 1000 characters; with at most 1000 it passes validation, and is stored  *)
(* and broadcast once the handler has finished, unless the store rejected  *)
(* a call of this send or holds no User document for the sender            *)
C10_LengthBoundary ==
  \A i \in SendOps :
    (ops[i].hadSession /\ ops[i].raw.core > 0)
    => /\ (ops[i].raw.pre + ops[i].raw.core + ops[i].raw.post > 1000)
          => /\ ops[i].pc = "done" /\ ops[i].result = ErrTooLong
             /\ Cardinality(ErrorsTo(i, ErrTooLong)) = 1
             /\ ~Stored(i) /\ ReceiveMessages(i) = {}
       /\ (ops[i].raw.pre + ops[i].raw.core + ops[i].raw.post <= 1000)
          => /\ ops[i].result \notin {ErrTooLong, ErrEmptyContent}
             /\ (ops[i].pc = "done" /\ ops[i].type = "text"
                 /\ ops[i].cause \notin {"store", "null-sender"})
                => Stored(i) /\ Cardinality(ReceiveMessages(i)) = 1

\* a content of exactly 1000 characters was stored and broadcast, and a
\* content of 1001 characters was rejected
C10_Witness ==
  /\ \E i \in SendOps :
       /\ ops[i].raw = Content(0, 1000, 0)
       /\ Stored(i) /\ ReceiveMessages(i) # {}
  /\ \E i \in SendOps :
       /\ ops[i].hadSession
       /\ ops[i].raw.pre + ops[i].raw.core + ops[i].raw.post = 1001
       /\ ops[i].result = ErrTooLong

----------------------------------------------------------------------------
\* the step starts a handler invocation of one kind on socket c
Started(kind, c) ==
  /\ Len(ops') = Len(ops) + 1
  /\ ops'[Len(ops')].kind = kind
  /\ ops'[Len(ops')].sid = c

\* the step's only emit is one error event with this text, to socket c alone
OnlyErrorTo(c, msg) ==
  sent' = Append(sent, [op |-> Len(ops'), ev |-> "error", to |-> {c},
                        body |-> [message |-> msg]])

(* C11: a send-message from a socket that has no session is finished at    *)
(* once: 'User not authenticated' is emitted to that socket only, nothing  *)
(* is stored and nothing else is emitted                                   *)
C11_UnauthenticatedSendRejected ==
  [][\A c \in Conns :
       (Started("send", c) /\ ~HasSession(c))
       => /\ ops'[Len(ops')].pc = "done"
          /\ OnlyErrorTo(c, "User not authenticated")
          /\ messages' = messages]_vars

\* a socket without a session sent while another socket was in a room
C11_Witness ==
  \E i \in SendOps :
    /\ ops[i].result = ErrNotAuthenticated
    /\ ~HasSession(ops[i].sid)
    /\ \E r \in RoomIds : socketRooms[r] \ {ops[i].sid} # {}

PrivateOps == {i \in OpIds : ops[i].kind = "private"}

(* C12: a private-message from a socket that has no session is answered    *)
(* with 'User not authenticated' to that socket                            *)
C12_UnauthenticatedPrivateRejected ==
  [][\A c \in Conns :
       (Started("private", c) /\ ~HasSession(c))
       => OnlyErrorTo(c, "User not authenticated")]_vars

(* C13: a typing-start or typing-stop changes no server state; from a       *)
(* socket with a session in room R it emits one user-typing event, with    *)
(* the session's identity and the flag, to every member of R but the       *)
(* originating socket; from a socket without a session it emits nothing    *)
C13_TypingSkipsOriginator ==
  [][\A c \in Conns :
       Started("typing", c)
       => /\ UNCHANGED <<connState, activeUsers, socketRooms, users, roomsDb, messages>>
          /\ IF HasSession(c)
             THEN LET session == MapGet(activeUsers, c)
                  IN sent' = Append(sent,
                       [op |-> Len(ops'), ev |-> "user-typing",
                        to |-> socketRooms[session.roomId] \ {c},
                        body |-> [userId |-> session.userId,
                                  username |-> session.username,
                                  typing |-> ops'[Len(ops')].typing]])
             ELSE sent' = sent]_vars

\* a socket that is a member of its session's room typed while the room had
\* another member
C13_Witness ==
  \E k \in SentIds :
    /\ sent[k].ev = "user-typing"
    /\ sent[k].to # {}
    /\ ops[sent[k].op].sid \in socketRooms[ops[sent[k].op].roomId]

\* some session carries this userId
SessionOf(userId) == \E k \in 1..Len(activeUsers) : activeUsers[k].userId = userId

(* C14: a private-message from a socket with a session, to a userId that   *)
(* no session carries, is finished at once: 'User is offline' is emitted   *)
(* to the sender only and no private-message or message-sent event is     *)
(* emitted                                                                 *)
C14_OfflineRecipientReported ==
  [][\A c \in Conns :
       (/\ Started("private", c)
        /\ HasSession(c)
        /\ ~SessionOf(ops'[Len(ops')].recipient))
       => /\ ops'[Len(ops')].pc = "done"
          /\ OnlyErrorTo(c, "User is offline")]_vars

\* a private message to an absent user was sent while two sessions existed
C14_Witness ==
  \E i \in PrivateOps :
    /\ ops[i].result = ErrOffline
    /\ Len(activeUsers) = 2
    /\ EmitsOf(i, "private-message") = {} /\ EmitsOf(i, "message-sent") = {}

(* C15: a private message answered with 'User is offline' is in the        *)
(* Message Store and is returned by getPrivateMessages for the sender and  *)
(* the recipient                                                           *)
C15_PrivatePersistedWhenOffline ==
  \A i \in PrivateOps :
    ops[i].result = ErrOffline
    => /\ Stored(i)
       /\ \A history \in GetPrivateMessages(messages, ops[i].userId, ops[i].recipient) :
            \E k \in 1..Len(history) : history[k].id = i

JoinOps == {i \in OpIds : ops[i].kind = "join"}

(* C16: a join-room whose userId or username is missing or empty is        *)
(* finished at once: 'Invalid user data' is emitted to that socket only,   *)
(* and the sessions, the room memberships and the stored users, rooms and  *)
(* messages are unchanged                                                  *)
C16_InvalidJoinChangesNothing ==
  [][\A c \in Conns :
       (/\ Started("join", c)
        /\ \/ ops'[Len(ops')].userId = Empty
           \/ ops'[Len(ops')].username = Empty)
       => /\ ops'[Len(ops')].pc = "done"
          /\ OnlyErrorTo(c, "Invalid user data")
          /\ UNCHANGED <<connState, activeUsers, socketRooms, users, roomsDb, messages>>]_vars

\* a join without userId and a join without username were both refused
C16_Witness ==
  /\ \E i \in JoinOps : ops[i].userId = Empty /\ ops[i].result = ErrInvalidUser
  /\ \E i \in JoinOps : ops[i].username = Empty /\ ops[i].result = ErrInvalidUser

\* the emits the step adds to the log
NewEmits == (Len(sent) + 1)..Len(sent')

(* C17: every users-update emitted for room R lists exactly the sessions   *)
(* of R in activeUsers at that instant, one entry per session; the one a   *)
(* successful join emits goes to every member of R, the joining socket     *)
(* included while it is connected, and lists the joiner                    *)
C17_UsersUpdateSnapshot ==
  [][/\ \A k \in NewEmits :
          sent'[k].ev = "users-update"
          => sent'[k].body = OnlineUsers(activeUsers', ops'[sent'[k].op].roomId)
     /\ \A i \in JoinOps :
          (ops[i].pc # "done" /\ ops'[i].result = "join-success")
          => \E k \in NewEmits :
               /\ sent'[k].op = i /\ sent'[k].ev = "users-update"
               /\ sent'[k].to = socketRooms'[ops[i].roomId]
               /\ connState[ops[i].sid] = "open"
                  => /\ ops[i].sid \in sent'[k].to
                     /\ \E n \in 1..Len(sent'[k].body) :
                          /\ sent'[k].body[n].userId = ops[i].userId
                          /\ sent'[k].body[n].username = ops[i].username]_vars

DisconnectOps == {i \in OpIds : ops[i].kind = "disconnect"}

(* C18: when the disconnect handler of a socket that had a session in room *)
(* R finishes, it has emitted to every remaining member of R one user-left *)
(* and then one users-update whose list leaves the closed socket's session *)
(* out, and nothing to the closed socket                                   *)
C18_DisconnectAnnounced ==
  [][\A i \in DisconnectOps :
       (ops[i].hadSession /\ ops[i].pc # "done" /\ ops'[i].pc = "done")
       => LET others == socketRooms[ops[i].roomId] \ {ops[i].sid}
          IN sent' = sent \o
               << [op |-> i, ev |-> "user-left", to |-> others,
                   body |-> [userId |-> ops[i].userId, username |-> ops[i].username]],
                  [op |-> i, ev |-> "users-update", to |-> others,
                   body |-> OnlineUsers(MapDelete(activeUsers, ops[i].sid), ops[i].roomId)] >>]_vars

(* C19: once every handler has finished and no store call was rejected, a  *)
(* user who has a session on a connected socket is marked online in the    *)
(* User Store; in particular closing one of two sockets joined with the    *)
(* same userId leaves the user online                                      *)
C19_OnlineWhileAnySession ==
  (Settled /\ failures = 0)
  => \A u \in UserIds :
       (\E k \in 1..Len(activeUsers) :
          activeUsers[k].userId = u /\ connState[activeUsers[k].sid] = "open")
       => users[u] # NoDoc /\ users[u].isOnline

\* the position in the emit log of the broadcast of message m
BroadcastAt(m) == CHOOSE k \in ReceiveMessages(m) : TRUE

\* the messages broadcast to the room of join j before that join began
SentBefore(j) ==
  {m \in SendOps : /\ ops[m].result = "sent"
                   /\ ops[m].roomId = ops[j].roomId
                   /\ BroadcastAt(m) <= ops[j].seen}

(* C20: the recent-messages list a join receives holds every message that  *)
(* was broadcast to the room before the join began, with the content,      *)
(* sender and type that were sent, and lists those of different           *)
(* timestamps in the order in which they were broadcast                    *)
C20_HistoryRoundTrip ==
  \A k \in SentIds :
    sent[k].ev = "recent-messages"
    => LET list == sent[k].body
           At(m) == CHOOSE n \in 1..Len(list) : list[n].id = m
       IN /\ \A m \in SentBefore(sent[k].op) :
               \E n \in 1..Len(list) :
                 /\ list[n].id = m
                 /\ list[n].content = ops[m].content
                 /\ list[n].sender = ops[m].userId
                 /\ list[n].type = ops[m].type
          /\ \A a, b \in SentBefore(sent[k].op) :
               (BroadcastAt(a) < BroadcastAt(b) /\ ops[a].ts # ops[b].ts) => At(a) < At(b)

(* C21: when one socket sends m1 and then m2 and both are broadcast, every *)
(* socket that is sent both is sent m1 before m2                           *)
C21_SendsOfOneSocketInOrder ==
  \A a, b \in SendOps :
    (/\ a < b
     /\ ops[a].sid = ops[b].sid
     /\ ops[a].result = "sent" /\ ops[b].result = "sent")
    => \A c \in sent[BroadcastAt(a)].to \cap sent[BroadcastAt(b)].to :
         BroadcastAt(a) < BroadcastAt(b)

\* the user-typing events about other users that the client has handled
OthersTyping == {k \in 1..Len(typingEvents) : typingEvents[k].userId # "me"}

\* the event that set the typing state a name still has: a typing event of
\* the name that no stop event of the same name follows
SetAt(name) ==
  {k \in OthersTyping :
     /\ typingEvents[k].username = name /\ typingEvents[k].typing
     /\ \A j \in OthersTyping :
          (j > k /\ typingEvents[j].username = name) => typingEvents[j].typing}

ActiveTypers == {u.username : u \in {v \in ClientUsers : SetAt(v.username) # {}}}

FirstSet(name) == CHOOSE k \in SetAt(name) : \A j \in SetAt(name) : k <= j

\* the active typers that were set before this one
Earlier(name) == {other \in ActiveTypers : FirstSet(other) < FirstSet(name)}

(* C22: with N active typers the indicator is hidden when N = 0 and shown  *)
(* otherwise, with the text "X is typing..." for N = 1, "X and Y are       *)
(* typing..." for N = 2 and "X, Y and <N-2> others are typing..." for      *)
(* N >= 3, X and Y being the two active typers whose state was set first   *)
C22_TypingDisplayText ==
  LET N == Cardinality(ActiveTypers)
  IN /\ N = 0 <=> typingIndicator = "hidden"
     /\ N >= 1
        => \E X \in ActiveTypers :
             /\ Earlier(X) = {}
             /\ N = 1 => typingText = <<X, " is typing...">>
             /\ N >= 2
                => \E Y \in ActiveTypers :
                     /\ Earlier(Y) = {X}
                     /\ N = 2 => typingText = <<X, " and ", Y, " are typing...">>
                     /\ N >= 3
                        => /\ Len(typingText) = 6
                           /\ SubSeq(typingText, 1, 4) = <<X, ", ", Y, " and ">>
                           /\ typingText[5] = (IF N = 3 THEN "1" ELSE "2")
                           /\ typingText[6] = " others are typing..."

\* three typers are shown, the last of them one who stopped and started again
C22_Witness ==
  /\ typingUsers = <<"Bob", "Carol", "Alice">>
  /\ \E k \in OthersTyping : typingEvents[k].username = "Alice" /\ ~typingEvents[k].typing

StoredRooms == {r \in RoomIds : roomsDb[r] # NoDoc}

(* C23: in every stored Room document the creator is one of the            *)
(* participants and one of the admins                                      *)
C23_CreatorStaysParticipantAndAdmin ==
  \A r \in StoredRooms :
    /\ Includes(roomsDb[r].participants, roomsDb[r].createdBy)
    /\ Includes(roomsDb[r].admins, roomsDb[r].createdBy)

\* removeParticipant was called for the creator of a room and saved
C23_Witness ==
  \E i \in OpIds :
    /\ ops[i].kind \in {"removeParticipant", "rest-leave"}
    /\ ops[i].result = "saved"
    /\ ops[i].userId = roomsDb[ops[i].roomId].createdBy

NoDuplicates(seq) == \A i, j \in 1..Len(seq) : seq[i] = seq[j] => i = j

(* C24: no stored Room document has more participants than its            *)
(* maxParticipants allows (checked for documents that list no participant *)
(* twice)                                                                  *)
C24_ParticipantsWithinLimit ==
  \A r \in StoredRooms :
    NoDuplicates(roomsDb[r].participants)
    => Len(roomsDb[r].participants) <= roomsDb[r].maxParticipants

(* C25: once every handler has finished, a socket whose disconnect arrived *)
(* while a join or send handler of the same socket was suspended on the    *)
(* store has no session and is in no room                                  *)
C25_DisconnectDuringHandler ==
  Settled
  => \A d \in DisconnectOps :
       (\E i \in ops[d].during : ops[i].kind \in {"join", "send"})
       => ~HasSession(ops[d].sid) /\ RoomsOf(ops[d].sid) = {}

\* the position in the emit log at which socket c is first sent message m
FirstReceipt(c, m) ==
  CHOOSE k \in ReceiveMessages(m) :
    /\ c \in sent[k].to
    /\ \A j \in ReceiveMessages(m) : c \in sent[j].to => k <= j

\* the sockets that were sent both messages
SentBoth(a, b) == {c \in Conns : Received(c, a) > 0 /\ Received(c, b) > 0}

(* C26: any two sockets that are both sent the same two messages of a room *)
(* are sent them in the same relative order                                *)
C26_SingleOrderInRoom ==
  \A a, b \in SendOps :
    \A c1, c2 \in SentBoth(a, b) :
      (FirstReceipt(c1, a) < FirstReceipt(c1, b))
      <=> (FirstReceipt(c2, a) < FirstReceipt(c2, b))

\* two messages of different senders were each sent to both sockets
C26_Witness ==
  \E a, b \in SendOps :
    /\ ops[a].sid # ops[b].sid
    /\ SentBoth(a, b) = Conns

\* the messages of room r in the store
MessagesOf(r) == {messages[k] : k \in {j \in 1..Len(messages) : messages[j].roomId = r}}

\* the recent-messages emits of the step
NewPages == {k \in NewEmits : sent'[k].ev = "recent-messages"}

\* the step in which join i completes with join-success
JoinSucceeds(i) == ops[i].pc # "done" /\ ops'[i].result = "join-success"

(* C27: recent-messages is emitted only by the step that completes a join, *)
(* at most once and to the joining socket alone; when the store holds no   *)
(* message of the joined room it is not emitted; otherwise it lists        *)
(* messages of that room only, each once, min(50, number stored) of them,  *)
(* none older than a message left out, in non-decreasing timestamp order   *)
C27_RecentMessagesPage ==
  [][/\ \A k \in NewPages : \E i \in JoinOps : sent'[k].op = i /\ JoinSucceeds(i)
     /\ \A i \in JoinOps :
          JoinSucceeds(i)
          => IF MessagesOf(ops[i].roomId) = {}
             THEN NewPages = {}
             ELSE \E k \in NewPages :
                    LET page == sent'[k].body
                        listed == {page[n] : n \in 1..Len(page)}
                    IN /\ NewPages = {k}
                       /\ sent'[k].to = {ops[i].sid}
                       /\ listed \subseteq MessagesOf(ops[i].roomId)
                       /\ Len(page) = Min(Cardinality(MessagesOf(ops[i].roomId)), RecentLimit)
                       /\ Cardinality(listed) = Len(page)
                       /\ \A m, n \in 1..Len(page) :
                            m < n => page[m].timestamp <= page[n].timestamp
                       /\ \A x \in MessagesOf(ops[i].roomId) \ listed :
                            \A n \in 1..Len(page) : x.timestamp <= page[n].timestamp]_vars

\* one join got a page of exactly 50 messages from a room that stores more,
\* and another join, into a room without messages, got no page
C27_Witness ==
  /\ \E k \in SentIds :
       /\ sent[k].ev = "recent-messages"
       /\ Len(sent[k].body) = RecentLimit
       /\ Cardinality(MessagesOf(ops[sent[k].op].roomId)) > RecentLimit
  /\ \E i \in JoinOps :
       /\ ops[i].result = "join-success"
       /\ MessagesOf(ops[i].roomId) = {}
       /\ EmitsOf(i, "recent-messages") = {}

(* C28: the step that completes a join of socket s into room R with        *)
(* join-success emits user-joined, carrying the joiner's userId and        *)
(* username, exactly once to every other socket in R (every connected      *)
(* socket whose session names R is one of them) and to no one else, and    *)
(* emits exactly one join-success, to s alone; no other step emits either  *)
(* event                                                                   *)
C28_JoinAnnounced ==
  [][/\ \A k \in NewEmits :
          sent'[k].ev \in {"user-joined", "join-success"}
          => \E i \in JoinOps : sent'[k].op = i /\ JoinSucceeds(i)
     /\ \A i \in JoinOps :
          JoinSucceeds(i)
          => LET R == ops[i].roomId
                 joined == {k \in NewEmits :
                              /\ sent'[k].ev = "user-joined"
                              /\ sent'[k].body = [userId |-> ops[i].userId,
                                                  username |-> ops[i].username]}
                 welcome == {k \in NewEmits : sent'[k].ev = "join-success"}
             IN /\ \A c \in Conns :
                     Cardinality({k \in joined : c \in sent'[k].to})
                       = IF c # ops[i].sid /\ c \in socketRooms[R] THEN 1 ELSE 0
                /\ \A c \in SessionsIn(R) \ {ops[i].sid} :
                     connState[c] = "open" => c \in socketRooms[R]
                /\ \E k \in welcome :
                     /\ welcome = {k}
                     /\ sent'[k].to = {ops[i].sid}
                     /\ sent'[k].body.roomId = R]_vars

\* a join succeeded into a room that held another socket, which was sent
\* the user-joined event
C28_Witness ==
  \E k \in SentIds :
    /\ sent[k].ev = "user-joined"
    /\ sent[k].to # {}
    /\ ops[sent[k].op].result = "join-success"
    /\ EmitsOf(sent[k].op, "join-success") # {}

(* C29: a private message whose recipient's userId was carried by several  *)
(* sessions at the look-up, all of them on connected sockets, and whose    *)
(* sender was confirmed with message-sent on a still connected socket      *)
(* other than the first match, was emitted as private-message exactly      *)
(* once, to the socket of the first of those sessions in activeUsers order *)
(* and to no other; the sender got exactly one message-sent, with the id   *)
(* of the stored message                                                   *)
C29_FirstMatchOnly ==
  \A i \in PrivateOps :
    (/\ ops[i].result = "message-sent"
     /\ Len(ops[i].matches) >= 2
     /\ \A n \in 1..Len(ops[i].matches) : ops[i].matches[n] \in ops[i].openAt
     /\ ops[i].sid # ops[i].matches[1]
     /\ connState[ops[i].sid] = "open")
    => /\ \E k \in EmitsOf(i, "private-message") :
            /\ EmitsOf(i, "private-message") = {k}
            /\ sent[k].to = {ops[i].matches[1]}
       /\ \E k \in EmitsOf(i, "message-sent") :
            /\ EmitsOf(i, "message-sent") = {k}
            /\ sent[k].to = {ops[i].sid}
            /\ sent[k].body.messageId = i
       /\ Stored(i)

(* C30: once every handler has finished, no store call was rejected and    *)
(* no socket joined twice, every join with a userId and a username into a  *)
(* room that was not in the Room Store when the join began has completed   *)
(* with join-success, the room is stored, and the joining socket, while    *)
(* connected, has a session                                                *)
C30_FindOrCreateAtomic ==
  (Settled /\ failures = 0 /\ \A c \in Conns : Cardinality(JoinsOn(c)) <= 1)
  => \A i \in JoinOps :
       (ops[i].absent /\ ops[i].userId # Empty /\ ops[i].username # Empty)
       => /\ ops[i].result = "join-success"
          /\ roomsDb[ops[i].roomId] # NoDoc
          /\ connState[ops[i].sid] = "open" => HasSession(ops[i].sid)

\* the positions at which a userId stands in a sequence of userIds
Positions(seq, x) == {k \in 1..Len(seq) : seq[k] = x}

(* C31: once every handler has finished, no store call was rejected and no *)
(* socket joined twice, the userId of every join that completed with       *)
(* join-success stands exactly once in the participants of the stored      *)
(* room, and so does the room's creator                                    *)
C31_ParticipantsAreASet ==
  (Settled /\ failures = 0 /\ \A c \in Conns : Cardinality(JoinsOn(c)) <= 1)
  => /\ \A i \in JoinOps :
          ops[i].result = "join-success"
          => Cardinality(Positions(roomsDb[ops[i].roomId].participants, ops[i].userId)) = 1
     /\ \A r \in StoredRooms :
          Cardinality(Positions(roomsDb[r].participants, roomsDb[r].createdBy)) = 1

\* every socket but the page's own has disconnected: no typing-stop can
\* be sent to the page any more
OthersGone == \A c \in Conns \ {PageSocket} : connState[c] = "closed"

(* C32: a user who is shown as typing on the page of a connected member    *)
(* after every other socket has disconnected, and who therefore sends no   *)
(* typing-stop any more, eventually stops being shown as typing            *)
C32_TypingExpires ==
  \A name \in {"alice", "bob"} :
    (Includes(typingUsers, name) /\ OthersGone) ~> ~Includes(typingUsers, name)

(* C33: when a connected socket with a session in room R asks to leave,    *)
(* it has no session and is not in R afterwards, it is still connected,    *)
(* and user-left and then users-update are emitted to the remaining        *)
(* members of R                                                            *)
C33_LeaveKeepsConnection ==
  [][\A c \in Conns :
       (Started("leave", c) /\ HasSession(c))
       => LET R == MapGet(activeUsers, c).roomId
          IN /\ ~MapHas(activeUsers', c)
             /\ c \notin socketRooms'[R]
             /\ connState'[c] = "open"
             /\ \E k \in NewEmits :
                  /\ sent'[k].ev = "user-left" /\ sent'[k].to = socketRooms[R] \ {c}
                  /\ \E j \in NewEmits :
                       /\ j > k /\ sent'[j].ev = "users-update"
                       /\ sent'[j].to = socketRooms[R] \ {c}]_vars

(* C34: as long as no handler has ended in its catch block, no socket is   *)
(* sent a user-joined event of a connection after it was sent the          *)
(* user-left event of that connection                                      *)
C34_NoJoinedAfterLeft ==
  \A k, j \in SentIds :
    (/\ \A i \in OpIds : ops[i].cause = Null
     /\ sent[k].ev = "user-left" /\ sent[j].ev = "user-joined"
     /\ ops[sent[k].op].sid = ops[sent[j].op].sid
     /\ k < j)
    => sent[k].to \cap sent[j].to = {}

\* the events that are addressed to a room
RoomEvents == {"receive-message", "user-typing", "user-joined", "user-left", "users-update"}

(* C35: whenever a handler of one socket emits a receive-message,          *)
(* user-typing, user-joined, user-left or users-update event of room R,    *)
(* while no handler has ended in its catch block, every other socket it is *)
(* emitted to has a session whose roomId is R                              *)
C35_RoomIsolation ==
  [][\A k \in NewEmits :
       (/\ sent'[k].ev \in RoomEvents
        /\ \A i \in 1..Len(ops') : ops'[i].cause = Null)
       => \A c \in sent'[k].to \ {ops'[sent'[k].op].sid} :
            /\ MapHas(activeUsers', c)
            /\ MapGet(activeUsers', c).roomId = ops'[sent'[k].op].roomId]_vars

(* C36: every receive-message of a send whose socket did not join again    *)
(* carries the userId and the username that the sending socket's session   *)
(* had when the message was sent                                           *)
C36_SenderIdentityFromSession ==
  \A k \in SentIds :
    (sent[k].ev = "receive-message" /\ JoinsOn(ops[sent[k].op].sid) = {})
    => /\ sent[k].body.userId = ops[sent[k].op].userId
       /\ sent[k].body.username = ops[sent[k].op].username

(* C37: a message-sent confirmation of a private message whose recipient   *)
(* socket was another socket than the sender's and connected at the        *)
(* look-up is emitted only after the private-message event was emitted to  *)
(* a connected socket                                                      *)
C37_SentOnlyIfDelivered ==
  \A k \in SentIds :
    (/\ sent[k].ev = "message-sent"
     /\ ops[sent[k].op].recipientSid \in ops[sent[k].op].openAt \ {ops[sent[k].op].sid})
    => \E j \in EmitsOf(sent[k].op, "private-message") : j < k /\ sent[j].to # {}

(* C38: when the save of a REST leave of user u from room r succeeds, u is *)
(* neither in the stored participants nor in the stored admins of r; and a *)
(* REST leave of the creator of a room that has other participants is      *)
(* refused at once and changes no stored room                              *)
C38_RestLeaveRemoves ==
  [][/\ \A i \in OpIds :
          (ops[i].kind = "rest-leave" /\ ops[i].pc # "done" /\ ops'[i].result = "saved")
          => /\ ~Includes(roomsDb'[ops[i].roomId].participants, ops[i].userId)
             /\ ~Includes(roomsDb'[ops[i].roomId].admins, ops[i].userId)
     /\ (/\ Len(ops') = Len(ops) + 1
         /\ ops'[Len(ops')].kind = "rest-leave"
         /\ roomsDb[ops'[Len(ops')].roomId] # NoDoc
         /\ roomsDb[ops'[Len(ops')].roomId].createdBy = ops'[Len(ops')].userId
         /\ Len(roomsDb[ops'[Len(ops')].roomId].participants) > 1)
        => /\ ops'[Len(ops')].result =
                "Room creator cannot leave while other participants are present"
           /\ UNCHANGED roomsDb]_vars

\* every admin of the document is one of its participants
AdminsAreParticipants(room) ==
  \A k \in 1..Len(room.admins) : Includes(room.participants, room.admins[k])

\* the step in which a call of this Room method begins
Called(method) == Len(ops') = Len(ops) + 1 /\ ops'[Len(ops')].kind = method

(* C39: when room creation and the Room methods are used one after the     *)
(* other, every stored room has all its admins among its participants;     *)
(* addAdmin for a user who is not a participant and removeAdmin for the    *)
(* creator fail with the method's error, both without any write            *)
C39_AdminsSubsetOfParticipants ==
  [][/\ \A r \in RoomIds : roomsDb'[r] # NoDoc => AdminsAreParticipants(roomsDb'[r])
     /\ (/\ Called("addAdmin")
         /\ ~Includes(roomsDb[ops'[Len(ops')].roomId].participants, ops'[Len(ops')].userId))
        => /\ ops'[Len(ops')].pc = "done"
           /\ ops'[Len(ops')].result = ErrNotParticipant
           /\ UNCHANGED roomsDb
     /\ (/\ Called("removeAdmin")
         /\ roomsDb[ops'[Len(ops')].roomId].createdBy = ops'[Len(ops')].userId)
        => /\ ops'[Len(ops')].pc = "done"
           /\ ops'[Len(ops')].result = ErrCreatorAdmin
           /\ UNCHANGED roomsDb]_vars

\* a participant was made admin and then removed as participant, and both
\* writes were saved
C39_Witness ==
  \E i, j \in OpIds :
    /\ i < j
    /\ ops[i].kind = "addAdmin" /\ ops[i].result = "saved"
    /\ ops[j].kind = "removeParticipant" /\ ops[j].result = "saved"
    /\ ops[i].userId = ops[j].userId /\ ops[i].roomId = ops[j].roomId

\* the event the client emitted as its k-th
EmittedAt(k, ev) == k <= Len(clientEmits) /\ clientEmits[k] = ev

(* C40: every typing-start the client emits is eventually followed by a    *)
(* typing-stop of the same client, and a send-message is emitted together  *)
(* with the typing-stop right after it                                     *)
C40_TypingDebounce ==
  /\ \A k \in 1..MaxClientEmits :
       EmittedAt(k, "typing-start")
         ~> (\E j \in (k + 1)..MaxClientEmits : EmittedAt(j, "typing-stop"))
  /\ [](\A k \in 1..MaxClientEmits :
          EmittedAt(k, "send-message") => EmittedAt(k + 1, "typing-stop"))

\* the timer has run after the last key press: the latest typing-start is
\* followed by the typing-stop of the timer and no timer is pending
C40_Witness ==
  /\ typingTimeout = <<>>
  /\ \E k \in 1..MaxClientEmits :
       /\ EmittedAt(k, "typing-start")
       /\ EmittedAt(k + 1, "typing-stop")
       /\ k + 1 = Len(clientEmits)

====
